---- MODULE Spec2Model ----
(***************************************************************************)
(* z3dk static analyzer (scripts/static_analyzer.py, oracle_analyzer.py):  *)
(* the 65816 register-width state tracker, its call graph and the          *)
(* diagnostics it produces, as a state machine.                            *)
(*                                                                         *)
(* Python values are modelled as follows.                                  *)
(*   Optional[bool] flag : "True" (8-bit), "False" (16-bit), "None"        *)
(*   Optional[int]       : the integer, or NoneVal for None                *)
(*   dict                : a function whose DOMAIN is the key set          *)
(*   list                : a sequence                                      *)
(***************************************************************************)
EXTENDS Integers, Sequences, FiniteSets, TLC

VARIABLES prog, tracker, cur, pc, calls, hooks, fcall

vars == <<prog, tracker, cur, pc, calls, hooks, fcall>>

-----------------------------------------------------------------------------
(* Bounds of the model *)

\* analyze_from calls made on one tracker
MaxCalls == 2
\* length of the exhaustively enumerated ROM images
MaxRomLen == 2
\* largest stack depth of a RegisterState handed to a pure function
MaxDepth == 1

-----------------------------------------------------------------------------
(* Python values *)

\* m_flag / x_flag: True = 8-bit, False = 16-bit, None = unknown
T8 == "True"
F16 == "False"
UNK == "None"
Flags == {T8, F16, UNK}

\* Python None where an int is expected (no address, byte or offset the
\* tracker computes is this small)
NoneVal == -1000000000

\* v & bit # 0, for a single-bit mask
BitSet(v, bit) == (v \div bit) % 2 = 1

\* the first argument, whatever the second
MinFirst(a, b) == a

Min(a, b) == IF a <= b THEN a ELSE b

RECURSIVE SumSeq(_)
SumSeq(s) == IF s = <<>> THEN 0 ELSE Head(s) + SumSeq(Tail(s))

RECURSIVE SelectOps(_, _)
\* [op for op in ops if op.opcode not in excluded]
SelectOps(ops, excluded) ==
    IF ops = <<>> THEN <<>>
    ELSE IF Head(ops).opcode \in excluded THEN SelectOps(Tail(ops), excluded)
         ELSE <<Head(ops)>> \o SelectOps(Tail(ops), excluded)

\* number of entries of a stack-op list with the given mnemonic
CountOp(ops, mn) == Cardinality({i \in DOMAIN ops : ops[i].opcode = mn})

\* d.get(k, default) on a dict
DictGet(d, k, default) == IF k \in DOMAIN d THEN d[k] ELSE default

-----------------------------------------------------------------------------
(* Opcode tables *)

CALL_OPCODES ==
    (32 :> <<"JSR", 2>>) @@ (34 :> <<"JSL", 3>>) @@ (252 :> <<"JSR", 2>>)

RETURN_OPCODES == (96 :> "RTS") @@ (107 :> "RTL") @@ (64 :> "RTI")

JUMP_OPCODES ==
    (76 :> <<"JMP", 2>>) @@ (92 :> <<"JML", 3>>) @@ (108 :> <<"JMP", 2>>)
    @@ (124 :> <<"JMP", 2>>) @@ (220 :> <<"JML", 2>>)

BRANCH_OPCODES ==
    (16 :> "BPL") @@ (48 :> "BMI") @@ (80 :> "BVC") @@ (112 :> "BVS")
    @@ (144 :> "BCC") @@ (176 :> "BCS") @@ (208 :> "BNE") @@ (240 :> "BEQ")
    @@ (128 :> "BRA") @@ (130 :> "BRL")

PUSH_OPCODES ==
    (72 :> "PHA") @@ (218 :> "PHX") @@ (90 :> "PHY") @@ (8 :> "PHP")
    @@ (139 :> "PHB") @@ (11 :> "PHD") @@ (75 :> "PHK") @@ (244 :> "PEA")
    @@ (212 :> "PEI") @@ (98 :> "PER")

PULL_OPCODES ==
    (104 :> "PLA") @@ (250 :> "PLX") @@ (122 :> "PLY") @@ (40 :> "PLP")
    @@ (171 :> "PLB") @@ (43 :> "PLD")

STACK_DELTAS ==
    [PHA |-> 1, PHX |-> 1, PHY |-> 1, PHP |-> 1, PHB |-> 1, PHD |-> 2,
     PHK |-> 1, PEA |-> 2, PEI |-> 2, PER |-> 2,
     PLA |-> -1, PLX |-> -1, PLY |-> -1, PLP |-> -1, PLB |-> -1, PLD |-> -2,
     JSR |-> 2, JSL |-> 3, RTS |-> -2, RTL |-> -3, RTI |-> -3]

\* the lower-case kind a jump mnemonic is recorded under (mnemonic.lower())
Lower(mn) == IF mn = "JMP" THEN "jmp" ELSE "jml"

-----------------------------------------------------------------------------
(* RegisterState *)

RegisterState(m, x) ==
    [m_flag |-> m, x_flag |-> x, emulation |-> FALSE,
     stack_depth |-> 0, stack_ops |-> <<>>]

\* an unknown M taken as 16-bit
m_widthUnknownWide(s) ==
    IF s.emulation \/ s.m_flag = T8 THEN 1 ELSE 2

m_width(s) ==
    IF s.emulation \/ s.m_flag = T8 THEN 1
    ELSE IF s.m_flag = F16 THEN 2
    ELSE 1

x_width(s) ==
    IF s.emulation \/ s.x_flag = T8 THEN 1
    ELSE IF s.x_flag = F16 THEN 2
    ELSE 1

\* the width doubled whenever the flag is not known-8-bit
get_stack_deltaUnknownWide(s, opcode) ==
    LET base_delta == DictGet(STACK_DELTAS, opcode, 0)
    IN  IF opcode \in {"PHA", "PLA"}
          THEN base_delta * (IF s.m_flag # T8 THEN 2 ELSE 1)
        ELSE IF opcode \in {"PHX", "PLX", "PHY", "PLY"}
          THEN base_delta * (IF s.x_flag # T8 THEN 2 ELSE 1)
        ELSE base_delta

get_stack_delta(s, opcode) ==
    LET base_delta == DictGet(STACK_DELTAS, opcode, 0)
    IN  IF opcode \in {"PHA", "PLA"}
          THEN base_delta * (IF s.m_flag = F16 THEN 2 ELSE 1)
        ELSE IF opcode \in {"PHX", "PLX", "PHY", "PLY"}
          THEN base_delta * (IF s.x_flag = F16 THEN 2 ELSE 1)
        ELSE base_delta

StackOp(addr, opcode, delta, cumulative) ==
    [addr |-> addr, opcode |-> opcode, delta |-> delta, cumulative |-> cumulative]

record_stack_op(s, addr, opcode) ==
    LET delta == get_stack_delta(s, opcode)
    IN  [s EXCEPT !.stack_depth = s.stack_depth + delta,
                  !.stack_ops = Append(s.stack_ops,
                                       StackOp(addr, opcode, delta, s.stack_depth + delta))]

\* RegisterState.copy(): values are immutable here, a copy is the value
copy(s) ==
    [m_flag |-> s.m_flag, x_flag |-> s.x_flag, emulation |-> s.emulation,
     stack_depth |-> s.stack_depth, stack_ops |-> s.stack_ops]

-----------------------------------------------------------------------------
(* ROM utilities *)

snes_to_pc(addr, mapper) ==
    LET bank == (addr \div 65536) % 256
        offset == addr % 65536
    IN  IF mapper = "lorom" THEN
            IF bank < 64 THEN (bank * 32768) + (offset - 32768)
            ELSE IF 128 <= bank /\ bank < 192 THEN ((bank - 128) * 32768) + (offset - 32768)
            ELSE IF bank >= 192 THEN ((bank - 192) * 32768) + (offset - 32768)
            ELSE -1
        ELSE IF mapper = "hirom" THEN
            IF bank < 64 THEN (bank * 65536) + offset
            ELSE IF 128 <= bank /\ bank < 192 THEN ((bank - 128) * 65536) + offset
            ELSE -1
        ELSE -1

pc_to_snes(p, mapper) ==
    IF mapper = "lorom" THEN ((p \div 32768) * 65536) + ((p % 32768) + 32768)
    ELSE IF mapper = "hirom" THEN ((p \div 65536) * 65536) + (p % 65536)
    ELSE -1

get_operand_size(opcode, mw, xw) ==
    LET mode == opcode % 32
    IN  IF opcode \in {9, 41, 73, 105, 137, 169, 201, 233} THEN mw
        ELSE IF opcode \in {160, 162, 192, 224} THEN xw
        ELSE IF mode \in {5, 6, 7, 21, 22, 23} THEN 1
        ELSE IF mode \in {13, 14, 15, 29, 30, 31}
               THEN (IF opcode % 16 = 15 THEN 3 ELSE 2)
        ELSE IF mode \in {3, 19} THEN 1
        ELSE IF opcode \in {16, 48, 80, 112, 144, 176, 208, 240, 128} THEN 1
        ELSE IF opcode = 130 THEN 2
        ELSE IF opcode \in {68, 84} THEN 2
        ELSE IF opcode \in {32, 76, 108, 124, 252} THEN 2
        ELSE IF opcode \in {34, 92, 220} THEN 3
        ELSE IF opcode \in {0, 2, 194, 226} THEN 1
        ELSE IF opcode \in {244, 98} THEN 2
        ELSE IF opcode = 212 THEN 1
        ELSE 0

\* StateTracker.read_byte on ROM image rom (rom[i+1] is byte i of the file)
read_byte(p, snes_addr) ==
    LET o == snes_to_pc(snes_addr, p.mapper)
    IN  IF 0 <= o /\ o < Len(p.rom) THEN p.rom[o + 1] ELSE NoneVal

read_word(p, snes_addr) ==
    LET lo == read_byte(p, snes_addr)
        hi == read_byte(p, snes_addr + 1)
    IN  IF lo # NoneVal /\ hi # NoneVal THEN lo + (hi * 256) ELSE NoneVal

read_long(p, snes_addr) ==
    LET lo == read_byte(p, snes_addr)
        mid == read_byte(p, snes_addr + 1)
        hi == read_byte(p, snes_addr + 2)
    IN  IF lo # NoneVal /\ mid # NoneVal /\ hi # NoneVal
          THEN lo + (mid * 256) + (hi * 65536)
          ELSE NoneVal

-----------------------------------------------------------------------------
(* CallGraph *)

CrossRef(from_addr, to_addr, kind) ==
    [from_addr |-> from_addr, to_addr |-> to_addr, kind |-> kind,
     from_bank |-> 0, to_bank |-> 0, is_tail_call |-> FALSE]

CallGraph ==
    [forward |-> <<>>, forward_keys |-> <<>>, reverse |-> <<>>,
     entry_points |-> {}]

\* ref after add_reference has set its bank fields (ref is the object that
\* cross_refs holds too)
SetBanks(ref) ==
    [ref EXCEPT !.from_bank = ref.from_addr \div 65536,
                !.to_bank = ref.to_addr \div 65536]

\* defaultdict(list): d[k].append(v)
DictAppend(d, k, v) == (k :> Append(DictGet(d, k, <<>>), v)) @@ d

\* the reverse map left alone
add_referenceForwardOnly(cg, ref) ==
    LET r == SetBanks(ref)
    IN  [cg EXCEPT !.forward = DictAppend(@, r.from_addr, r),
                   !.forward_keys = IF r.from_addr \in DOMAIN cg.forward
                                      THEN @ ELSE Append(@, r.from_addr)]

add_reference(cg, ref) ==
    LET r == SetBanks(ref)
    IN  [cg EXCEPT !.forward = DictAppend(@, r.from_addr, r),
                   !.forward_keys = IF r.from_addr \in DOMAIN cg.forward
                                      THEN @ ELSE Append(@, r.from_addr),
                   !.reverse = DictAppend(@, r.to_addr, r)]

add_entry_point(cg, addr) == [cg EXCEPT !.entry_points = @ \cup {addr}]

\* long calls and jumps looked at too
CrossBankKindsLong == {"jsr", "jmp", "jsl", "jml"}

\* the kinds find_cross_bank_calls looks at
CrossBankKinds == {"jsr", "jmp"}

RECURSIVE FlattenRefs(_, _)
\* the references of forward, in key order
FlattenRefs(cg, keys) ==
    IF keys = <<>> THEN <<>>
    ELSE cg.forward[Head(keys)] \o FlattenRefs(cg, Tail(keys))

RECURSIVE SelectCrossBank(_)
SelectCrossBank(refs) ==
    IF refs = <<>> THEN <<>>
    ELSE IF Head(refs).kind \in CrossBankKinds /\ Head(refs).from_bank # Head(refs).to_bank
           THEN <<Head(refs)>> \o SelectCrossBank(Tail(refs))
           ELSE SelectCrossBank(Tail(refs))

find_cross_bank_calls(cg) == SelectCrossBank(FlattenRefs(cg, cg.forward_keys))

-----------------------------------------------------------------------------
(* StateTracker *)

StateTracker ==
    [visited |-> <<>>, pending |-> <<>>, cross_refs |-> <<>>,
     diagnostics |-> <<>>, call_graph |-> CallGraph,
     stack_issues |-> <<>>, return_states |-> <<>>]

record_call(t, from_addr, to_addr, kind) ==
    LET ref == CrossRef(from_addr, to_addr, kind)
    IN  [t EXCEPT !.cross_refs = Append(@, SetBanks(ref)),
                  !.call_graph = add_reference(@, ref)]

\* _record_call with to_addr None: the reference is appended to cross_refs,
\* add_reference sets from_bank and raises TypeError on None >> 16
record_call_none(t, from_addr, kind) ==
    [t EXCEPT !.cross_refs =
        Append(@, [CrossRef(from_addr, NoneVal, kind)
                     EXCEPT !.from_bank = from_addr \div 65536])]

\* unknown accepted on one side only
FlagOkOneSided(f1, f2) == f1 = f2 \/ f1 = UNK

FlagOk(f1, f2) == f1 = f2 \/ f1 = UNK \/ f2 = UNK

states_compatible(s1, s2) ==
    FlagOk(s1.m_flag, s2.m_flag) /\ FlagOk(s1.x_flag, s2.x_flag)

\* a mismatch reported without the both-known test
FlagIssueAnyDifference(name, f1, f2) == IF f1 # f2 THEN <<name>> ELSE <<>>

\* the issue a flag contributes to a mismatch report
FlagIssue(name, f1, f2) ==
    IF f1 # UNK /\ f2 # UNK /\ f1 # f2 THEN <<name>> ELSE <<>>

Diagnostic(severity, message, address, context) ==
    [severity |-> severity, message |-> message, address |-> address,
     context |-> context]

check_state_mismatch(t, addr, existing, new) ==
    LET issues == FlagIssue("M flag mismatch", existing.m_flag, new.m_flag)
                  \o FlagIssue("X flag mismatch", existing.x_flag, new.x_flag)
    IN  IF issues # <<>>
          THEN [t EXCEPT !.diagnostics =
                  Append(@, Diagnostic("warning", "State mismatch", addr, issues))]
          ELSE t

\* the status push filtered out with the call/return operations
NonLocalOpsAndPhp == {"JSR", "JSL", "RTS", "RTL", "RTI", "PHP"}

NonLocalOps == {"JSR", "JSL", "RTS", "RTL", "RTI"}

LocalOps(state) == SelectOps(state.stack_ops, NonLocalOps)

\* the status pair alone
PAIRSStatusOnly == << <<"PHP", "PLP">> >>

PAIRS ==
    << <<"PHB", "PLB">>, <<"PHD", "PLD">>, <<"PHP", "PLP">>,
       <<"PHA", "PLA">>, <<"PHX", "PLX">>, <<"PHY", "PLY">> >>

RECURSIVE PairIssues(_, _, _)
\* the Unbalanced push/pull warnings of pairs, in order
PairIssues(local_ops, addr, pairs) ==
    IF pairs = <<>> THEN <<>>
    ELSE LET pushes == CountOp(local_ops, Head(pairs)[1])
             pulls == CountOp(local_ops, Head(pairs)[2])
         IN  (IF pushes # pulls
                THEN <<Diagnostic("warning", "Unbalanced", addr,
                                  [pair |-> Head(pairs), pushes |-> pushes,
                                   pulls |-> pulls])>>
                ELSE <<>>)
             \o PairIssues(local_ops, addr, Tail(pairs))

check_stack_balance_at_return(t, addr, state) ==
    LET local_ops == LocalOps(state)
        local_balance == SumSeq([i \in DOMAIN local_ops |-> local_ops[i].delta])
    IN  IF local_ops = <<>> THEN t
        ELSE [t EXCEPT !.stack_issues =
                @ \o (IF local_balance # 0
                        THEN <<Diagnostic("warning", "Stack imbalance", addr,
                                          [balance |-> local_balance])>>
                        ELSE <<>>)
                  \o PairIssues(local_ops, addr, PAIRS)]

-----------------------------------------------------------------------------
(* StateTracker._trace_block: one iteration of its while loop *)

\* the local variables of one _trace_block call; target is unbound until a
\* call, jump or branch assigns it
Trace(addr, state, routine_start) ==
    [addr |-> addr, state |-> copy(state), routine_start |-> routine_start,
     target_bound |-> FALSE, target |-> NoneVal]

\* the visited check left out
AlreadyVisitedNever(t, addr) == FALSE

\* addr in self.visited
AlreadyVisited(t, addr) == addr \in DOMAIN t.visited

\* REP setting 8-bit and SEP setting 16-bit
SetFlagsInverted(state, mask, value) ==
    LET other == IF value = T8 THEN F16 ELSE T8
    IN  [state EXCEPT !.m_flag = IF BitSet(mask, 32) THEN other ELSE @,
                      !.x_flag = IF BitSet(mask, 16) THEN other ELSE @]

\* REP/SEP setting both flags whatever the mask
SetFlagsBoth(state, mask, value) ==
    [state EXCEPT !.m_flag = value, !.x_flag = value]

\* REP (value False) and SEP (value True) under an immediate mask
SetFlags(state, mask, value) ==
    [state EXCEPT !.m_flag = IF BitSet(mask, 32) THEN value ELSE @,
                  !.x_flag = IF BitSet(mask, 16) THEN value ELSE @]

\* the if/elif chain on flag-modifying and stack instructions
ApplyInstruction(p, state, addr, opcode) ==
    LET mask == read_byte(p, addr + 1)
    IN  IF opcode = 194 THEN (IF mask # NoneVal THEN SetFlags(state, mask, F16) ELSE state)
        ELSE IF opcode = 226 THEN (IF mask # NoneVal THEN SetFlags(state, mask, T8) ELSE state)
        ELSE IF opcode = 40
          THEN [state EXCEPT !.m_flag = UNK, !.x_flag = UNK,
                             !.stack_depth = @ - 1]
        ELSE IF opcode = 251 THEN [state EXCEPT !.m_flag = T8, !.x_flag = T8]
        ELSE IF opcode \in DOMAIN PUSH_OPCODES
          THEN record_stack_op(state, addr, PUSH_OPCODES[opcode])
        ELSE IF opcode \in DOMAIN PULL_OPCODES
          THEN record_stack_op(state, addr, PULL_OPCODES[opcode])
        ELSE state

\* addr & 0xFF0000
BankOf(addr) == ((addr \div 65536) % 256) * 65536

\* every work item tagged with its own address
EnqueueSelfTagged(t, addr, state, routine_start) ==
    [t EXCEPT !.pending = Append(@, <<addr, copy(state), addr>>)]

Enqueue(t, addr, state, routine_start) ==
    [t EXCEPT !.pending = Append(@, <<addr, copy(state), routine_start>>)]

Outcome(t, c, status) == [t |-> t, c |-> c, status |-> status]

\* the caller continuing after a call with M and X unknown
HandleCallClobbering(p, t, c, opcode, next_addr) ==
    LET size == CALL_OPCODES[opcode][2]
        target == IF size = 2 THEN read_word(p, c.addr + 1)
                  ELSE read_long(p, c.addr + 1)
        target_addr == IF size = 2 THEN BankOf(c.addr) + target ELSE target
        kind == IF size = 2 THEN "jsr" ELSE "jsl"
        state == record_stack_op(c.state, c.addr, IF size = 2 THEN "JSR" ELSE "JSL")
        c1 == [c EXCEPT !.target_bound = TRUE, !.target = target,
                        !.addr = next_addr]
    IN  IF target # NoneVal
          THEN Outcome(Enqueue(record_call(t, c.addr, target_addr, kind),
                               target_addr, state, target_addr),
                       [c1 EXCEPT !.state = [state EXCEPT !.m_flag = UNK,
                                                          !.x_flag = UNK]],
                       "continue")
          ELSE Outcome(t, c1, "continue")

HandleCall(p, t, c, opcode, next_addr) ==
    LET size == CALL_OPCODES[opcode][2]
        target == IF size = 2 THEN read_word(p, c.addr + 1)
                  ELSE read_long(p, c.addr + 1)
        target_addr == IF size = 2 THEN BankOf(c.addr) + target ELSE target
        kind == IF size = 2 THEN "jsr" ELSE "jsl"
        state == record_stack_op(c.state, c.addr, IF size = 2 THEN "JSR" ELSE "JSL")
        c1 == [c EXCEPT !.target_bound = TRUE, !.target = target,
                        !.addr = next_addr]
    IN  IF target # NoneVal
          THEN Outcome(Enqueue(record_call(t, c.addr, target_addr, kind),
                               target_addr, state, target_addr),
                       [c1 EXCEPT !.state = state], "continue")
          ELSE Outcome(t, c1, "continue")

\* RTI leaving M and X as they were
HandleReturnKeepingFlags(t, c, opcode) ==
    LET state == record_stack_op(c.state, c.addr, RETURN_OPCODES[opcode])
        t1 == [t EXCEPT !.return_states =
                 DictAppend(@, c.routine_start, <<c.addr, copy(state)>>)]
    IN  Outcome(check_stack_balance_at_return(t1, c.addr, state),
                [c EXCEPT !.state = state], "return")

HandleReturn(t, c, opcode) ==
    LET s1 == record_stack_op(c.state, c.addr, RETURN_OPCODES[opcode])
        state == IF opcode = 64 THEN [s1 EXCEPT !.m_flag = UNK, !.x_flag = UNK]
                 ELSE s1
        t1 == [t EXCEPT !.return_states =
                 DictAppend(@, c.routine_start, <<c.addr, copy(state)>>)]
    IN  Outcome(check_stack_balance_at_return(t1, c.addr, state),
                [c EXCEPT !.state = state], "return")

HandleJump(p, t, c, opcode) ==
    LET mnemonic == JUMP_OPCODES[opcode][1]
        size == JUMP_OPCODES[opcode][2]
        target == IF size = 2 THEN read_word(p, c.addr + 1)
                  ELSE read_long(p, c.addr + 1)
        target_addr == IF size = 2 THEN BankOf(c.addr) + target ELSE target
        c1 == [c EXCEPT !.target_bound = TRUE, !.target = target]
    IN  IF target # NoneVal
          THEN Outcome(Enqueue(record_call(t, c.addr, target_addr, Lower(mnemonic)),
                               target_addr, c.state, c.routine_start),
                       c1, "return")
          ELSE Outcome(t, c1, "return")

\* the offset taken as unsigned
SignExtendNever(offset, half) == offset

\* offset sign-extended from `half` (0x80 or 0x8000)
SignExtend(offset, half) == IF offset >= half THEN offset - (2 * half) ELSE offset

HandleBranch(p, t, c, opcode, next_addr) ==
    LET offset == IF opcode = 130 THEN read_word(p, c.addr + 1)
                  ELSE read_byte(p, c.addr + 1)
        half == IF opcode = 130 THEN 32768 ELSE 128
        \* target is assigned only when the offset is readable
        c1 == IF offset # NoneVal
                THEN [c EXCEPT !.target_bound = TRUE,
                               !.target = next_addr + SignExtend(offset, half)]
                ELSE c
    IN  IF ~c1.target_bound
          THEN Outcome(t, c1, "raise")                   \* UnboundLocalError
        ELSE IF c1.target = NoneVal
          THEN Outcome(record_call_none(t, c.addr, "branch"), c1, "raise")  \* TypeError
        ELSE LET t1 == Enqueue(record_call(t, c.addr, c1.target, "branch"),
                               c1.target, c.state, c.routine_start)
             IN  IF opcode = 128 THEN Outcome(t1, c1, "return")
                 ELSE Outcome(t1, [c1 EXCEPT !.addr = next_addr], "continue")

Execute(p, t, c, opcode) ==
    LET op_size == get_operand_size(opcode, m_width(c.state), x_width(c.state))
        next_addr == c.addr + 1 + op_size
        c1 == [c EXCEPT !.state = ApplyInstruction(p, c.state, c.addr, opcode)]
    IN  IF opcode \in DOMAIN CALL_OPCODES THEN HandleCall(p, t, c1, opcode, next_addr)
        ELSE IF opcode \in DOMAIN RETURN_OPCODES THEN HandleReturn(t, c1, opcode)
        ELSE IF opcode \in DOMAIN JUMP_OPCODES THEN HandleJump(p, t, c1, opcode)
        ELSE IF opcode \in DOMAIN BRANCH_OPCODES THEN HandleBranch(p, t, c1, opcode, next_addr)
        ELSE Outcome(t, [c1 EXCEPT !.addr = next_addr], "continue")

\* the opcode read before the address is marked: an unreadable address is
\* left out of visited
trace_blockReadFirst(p, t, c) ==
    IF AlreadyVisited(t, c.addr)
      THEN LET existing == t.visited[c.addr]
           IN  IF states_compatible(existing, c.state)
                 THEN Outcome(t, c, "return")
                 ELSE Outcome(check_state_mismatch(t, c.addr, existing, c.state),
                              c, "return")
      ELSE LET opcode == read_byte(p, c.addr)
           IN  IF opcode = NoneVal THEN Outcome(t, c, "return")
               ELSE Execute(p, [t EXCEPT !.visited = (c.addr :> copy(c.state)) @@ @],
                            c, opcode)

trace_block(p, t, c) ==
    IF AlreadyVisited(t, c.addr)
      THEN LET existing == t.visited[c.addr]
           IN  IF states_compatible(existing, c.state)
                 THEN Outcome(t, c, "return")
                 ELSE Outcome(check_state_mismatch(t, c.addr, existing, c.state),
                              c, "return")
      ELSE LET t1 == [t EXCEPT !.visited = (c.addr :> copy(c.state)) @@ @]
               opcode == read_byte(p, c.addr)
           IN  IF opcode = NoneVal THEN Outcome(t1, c, "return")
               ELSE Execute(p, t1, c, opcode)

-----------------------------------------------------------------------------
(* Post-passes over a finished analysis *)

\* Optional[RegisterState]: <<>> for None, <<state>> otherwise
HookInfo(address, expected_entry_state, expected_exit_state) ==
    [address |-> address, kind |-> "jsl",
     expected_entry_state |-> expected_entry_state,
     expected_exit_state |-> expected_exit_state]

\* "M flag: expected .., got .." / "X flag: expected .., got .."
ContractIssues(expected, actual) ==
    FlagIssue("M flag", expected.m_flag, actual.m_flag)
    \o FlagIssue("X flag", expected.x_flag, actual.x_flag)

RECURSIVE ExitErrors(_, _)
\* the exit-contract errors of one hook, one per offending return state
ExitErrors(expected_exit, return_states) ==
    IF return_states = <<>> THEN <<>>
    ELSE LET ret_addr == Head(return_states)[1]
             ret_state == Head(return_states)[2]
             exit_issues == ContractIssues(expected_exit, ret_state)
         IN  (IF exit_issues # <<>>
                THEN <<Diagnostic("error", "exit state mismatch", ret_addr, exit_issues)>>
                ELSE <<>>)
             \o ExitErrors(expected_exit, Tail(return_states))

\* the diagnostics _validate_hooks appends for one hook
ValidateHook(t, hook) ==
    IF hook.address \notin DOMAIN t.visited
      THEN <<Diagnostic("warning", "was not reached during analysis", hook.address, <<>>)>>
      ELSE
        LET actual_state == t.visited[hook.address]
            issues == IF hook.expected_entry_state # <<>>
                        THEN ContractIssues(hook.expected_entry_state[1], actual_state)
                        ELSE <<>>
            return_states == DictGet(t.return_states, hook.address, <<>>)
        IN  (IF issues # <<>>
               THEN <<Diagnostic("error", "entry state mismatch", hook.address, issues)>>
               ELSE <<>>)
            \o (IF hook.expected_exit_state = <<>> THEN <<>>
                ELSE IF return_states = <<>>
                  THEN <<Diagnostic("warning", "no recorded return states",
                                    hook.address, <<>>)>>
                ELSE ExitErrors(hook.expected_exit_state[1], return_states))
            \o (IF actual_state.m_flag = UNK
                  THEN <<Diagnostic("warning", "M flag unknown at entry",
                                    hook.address, <<>>)>>
                  ELSE <<>>)
            \o (IF actual_state.x_flag = UNK
                  THEN <<Diagnostic("warning", "X flag unknown at entry",
                                    hook.address, <<>>)>>
                  ELSE <<>>)

RECURSIVE validate_hooks(_, _)
\* result.diagnostics is the tracker's own diagnostics list
validate_hooks(t, hs) ==
    IF hs = <<>> THEN t
    ELSE validate_hooks([t EXCEPT !.diagnostics = @ \o ValidateHook(t, Head(hs))],
                        Tail(hs))

RECURSIVE ScanJsl(_, _, _, _)
\* find_mx_mismatches: the scan of file offsets o .. len(rom) - 4 for JSL;
\* skipped are the targets that hook_meta or their label exclude
ScanJsl(p, t, skipped, o) ==
    IF o >= Len(p.rom) - 3 THEN <<>>
    ELSE
      LET src_addr == pc_to_snes(o, "lorom")
          target == p.rom[o + 2] + (p.rom[o + 3] * 256) + (p.rom[o + 4] * 65536)
          caller_state == t.visited[src_addr]
          callee_state == t.visited[target]
          issues == FlagIssue("M flag mismatch", caller_state.m_flag, callee_state.m_flag)
                    \o FlagIssue("X flag mismatch", caller_state.x_flag, callee_state.x_flag)
          here ==
            IF p.rom[o + 1] # 34 THEN <<>>
            ELSE IF snes_to_pc(target, "lorom") < 0 THEN <<>>
            ELSE IF target \in skipped THEN <<>>
            ELSE IF src_addr \notin DOMAIN t.visited \/ target \notin DOMAIN t.visited
              THEN <<>>
            ELSE IF issues # <<>>
              THEN <<Diagnostic("warning", "JSL mismatch", src_addr, issues)>>
            ELSE <<>>
      IN  here \o ScanJsl(p, t, skipped, o + 1)

find_mx_mismatches(p, t, skipped) == ScanJsl(p, t, skipped, 0)

-----------------------------------------------------------------------------
(* CallGraph.find_recursive_calls: Tarjan's algorithm *)

TarjanInit ==
    [counter |-> 0, stack |-> <<>>, lowlinks |-> <<>>, index |-> <<>>,
     on_stack |-> <<>>, sccs |-> <<>>]

\* the position of v on the stack
StackPos(stack, v) == CHOOSE i \in DOMAIN stack : stack[i] = v

\* pop the stack down to v; the popped nodes, last pushed first, form the scc
PopScc(v, st, min_size) ==
    LET i == StackPos(st.stack, v)
        n == Len(st.stack)
        scc == [k \in 1..(n - i + 1) |-> st.stack[n - k + 1]]
        popped == {st.stack[k] : k \in i..n}
    IN  [st EXCEPT !.stack = SubSeq(st.stack, 1, i - 1),
                   !.on_stack = [w \in DOMAIN st.on_stack |->
                                   IF w \in popped THEN FALSE ELSE st.on_stack[w]],
                   !.sccs = IF Len(scc) > min_size THEN Append(@, scc) ELSE @]

\* components of at most this many nodes are not reported
SccMinSize == 1

RECURSIVE strongconnect(_, _, _)
RECURSIVE VisitRefs(_, _, _, _)

strongconnect(cg, v, st) ==
    LET st1 == [st EXCEPT !.index = (v :> st.counter) @@ @,
                          !.lowlinks = (v :> st.counter) @@ @,
                          !.counter = @ + 1,
                          !.stack = Append(@, v),
                          !.on_stack = (v :> TRUE) @@ @]
        st2 == VisitRefs(cg, v, DictGet(cg.forward, v, <<>>), st1)
    IN  IF st2.lowlinks[v] = st2.index[v] THEN PopScc(v, st2, SccMinSize) ELSE st2

VisitRefs(cg, v, refs, st) ==
    IF refs = <<>> THEN st
    ELSE
      LET w == Head(refs).to_addr
          st1 == IF w \notin DOMAIN st.index
                   THEN LET r == strongconnect(cg, w, st)
                        IN  [r EXCEPT !.lowlinks =
                               (v :> Min(r.lowlinks[v], r.lowlinks[w])) @@ @]
                 ELSE IF DictGet(st.on_stack, w, FALSE)
                   THEN [st EXCEPT !.lowlinks =
                               (v :> Min(st.lowlinks[v], st.index[w])) @@ @]
                 ELSE st
      IN  VisitRefs(cg, v, Tail(refs), st1)

RECURSIVE TarjanLoop(_, _, _)
\* for v in self.forward.keys(): if v not in index: strongconnect(v)
TarjanLoop(cg, keys, st) ==
    IF keys = <<>> THEN st
    ELSE TarjanLoop(cg, Tail(keys),
                    IF Head(keys) \notin DOMAIN st.index
                      THEN strongconnect(cg, Head(keys), st) ELSE st)

find_recursive_calls(cg) == TarjanLoop(cg, cg.forward_keys, TarjanInit).sccs

-----------------------------------------------------------------------------
(* Inputs: ROM images, entry addresses, entry states, contract manifests *)

Prog(rom, mapper, entries) == [rom |-> rom, mapper |-> mapper, entries |-> entries]

\* $008000, the first ROM byte under LoROM
LOROM_BASE == 32768

\* Scenario A: SEP #$30 ; JSL $008007 ; RTL ; callee at $008007: RTL
RomA == <<226, 48, 34, 7, 128, 0, 107, 107>>
\* Scenario B: REP #$30 ; JSL $008007 ; RTL ; callee at $008007: RTL
RomB == <<194, 48, 34, 7, 128, 0, 107, 107>>
\* Scenario C: PHP ; SEP #$30 ; NOP ; RTL
RomC == <<8, 226, 48, 234, 107>>
\* Scenario D: A = $008000: JSR B ; RTS   B = $008004: JSR A ; RTS
RomD == <<32, 4, 128, 96, 32, 0, 128, 96>>
\* Scenario D with the call sites inside the routines:
\* A = $008000: NOP ; JSR B ; RTS   B = $008005: NOP ; JSR A ; RTS
RomDInner == <<234, 32, 5, 128, 96, 234, 32, 0, 128, 96>>
\* Scenario E: JSL $028000 ; JSR $8000 ; RTS
RomE == <<34, 0, 128, 2, 32, 0, 128, 96>>
\* BPL +3 ; BPL +2 ; RTS ; BPL with its offset byte past the end of the ROM
RomTruncated == <<16, 3, 16, 2, 96, 16>>

\* JSR $8000, entered at $1008000: an entry address above 24 bits reads bank 0
RomWrap == <<32, 0, 128>>
WrapEntry == 16777216 + LOROM_BASE

\* BPL +0 ; RTL: the branch target $008002 is also the fall-through
RomTwice == <<16, 0, 107>>

\* PHP ; JSR $8006 ; PLP ; RTS   callee R at $008006: RTS
RomCallerPush == <<8, 32, 6, 128, 40, 96, 96>>

\* PHP ; SEP #$30 ; NOP ; PLP ; RTL
RomPhpPlp == <<8, 226, 48, 234, 40, 107>>

\* REP #$30 ; PLP ; XCE ; RTI
RomModes == <<194, 48, 40, 251, 64>>

\* RTL alone, entered at $008000 and at $408000, which LoROM does not map
RomRtl == <<107>>
UnmappedEntry == (64 * 65536) + LOROM_BASE

\* PHA ; PLX ; RTS
RomPhaPlx == <<72, 250, 96>>

\* $8000: JMP $8004 ; $8003: NOP ; $8004: BRA +1 ; $8006: NOP ;
\* $8007: BRL +1 ; $800A: NOP ; $800B: RTL
RomJumps == <<76, 4, 128, 234, 128, 1, 234, 130, 1, 0, 234, 107>>

ScenarioProgs ==
    { Prog(RomA, "lorom", {LOROM_BASE, LOROM_BASE + 7}),
      Prog(RomTwice, "lorom", {LOROM_BASE, LOROM_BASE + 2}),
      Prog(RomB, "lorom", {LOROM_BASE, LOROM_BASE + 7}),
      Prog(RomCallerPush, "lorom", {LOROM_BASE}),
      Prog(RomPhpPlp, "lorom", {LOROM_BASE}),
      Prog(RomJumps, "lorom", {LOROM_BASE}),
      Prog(RomRtl, "lorom", {LOROM_BASE, UnmappedEntry}),
      Prog(RomModes, "lorom", {LOROM_BASE}),
      Prog(RomPhaPlx, "lorom", {LOROM_BASE}),
      Prog(RomWrap, "lorom", {WrapEntry}),
      Prog(RomC, "lorom", {LOROM_BASE}),
      Prog(RomD, "lorom", {LOROM_BASE}),
      Prog(RomDInner, "lorom", {LOROM_BASE}),
      Prog(RomE, "lorom", {LOROM_BASE}),
      Prog(RomTruncated, "lorom", {LOROM_BASE}) }

\* REP, SEP, their masks $10 $20 $30 (also BPL, JSR, BMI), PHP, PLP, RTL
GenericBytes == {194, 226, 16, 32, 48, 8, 40, 107}

GenericRoms == UNION {[1..n -> GenericBytes] : n \in 1..MaxRomLen}

Programs ==
    ScenarioProgs
    \cup {Prog(r, "lorom", {LOROM_BASE, LOROM_BASE + 1}) : r \in GenericRoms}
    \cup {Prog(r, "hirom", {0}) : r \in [1..1 -> GenericBytes]}

\* initial states handed to analyze_from
EntryStates ==
    {RegisterState(T8, T8), RegisterState(UNK, UNK), RegisterState(UNK, F16)}

\* the (entry, exit) contracts a manifest declares for a hook: 16-bit index
\* registers on entry and 8-bit registers on exit, or the reverse
Contracts ==
    { <<RegisterState(UNK, F16), RegisterState(T8, T8)>>,
      <<RegisterState(T8, T8), RegisterState(UNK, F16)>> }

\* one-hook manifests over the program's entry addresses
Manifests(p) ==
    {<<HookInfo(a, <<c[1]>>, <<c[2]>>)>> : a \in p.entries, c \in Contracts}

-----------------------------------------------------------------------------
(* The analysis as a state machine *)

NoCall == [fn |-> "none"]

Init ==
    /\ prog \in Programs
    /\ tracker = StateTracker
    /\ cur = <<>>
    /\ pc = "idle"
    /\ calls = 0
    /\ hooks = <<>>
    /\ fcall = NoCall

\* analyze_from(start_addr, initial_state), up to its while loop
AnalyzeFrom(start_addr, initial_state) ==
    /\ pc = "idle"
    /\ calls < MaxCalls
    /\ tracker' = [Enqueue(tracker, start_addr, initial_state, start_addr)
                     EXCEPT !.call_graph = add_entry_point(@, start_addr)]
    /\ pc' = "running"
    /\ calls' = calls + 1
    /\ UNCHANGED <<prog, cur, hooks, fcall>>

\* addr, state, routine_start = self.pending.pop(0), entering _trace_block
PopWork ==
    /\ pc = "running"
    /\ cur = <<>>
    /\ tracker.pending # <<>>
    /\ LET item == Head(tracker.pending)
       IN  /\ cur' = <<Trace(item[1], item[2], item[3])>>
           /\ tracker' = [tracker EXCEPT !.pending = Tail(@)]
    /\ UNCHANGED <<prog, pc, calls, hooks, fcall>>

\* one iteration of _trace_block's loop
TraceStep ==
    /\ pc = "running"
    /\ cur # <<>>
    /\ LET o == trace_block(prog, tracker, cur[1])
       IN  /\ tracker' = o.t
           /\ cur' = IF o.status = "continue" THEN <<o.c>> ELSE <<>>
           /\ pc' = IF o.status = "raise" THEN "raised" ELSE pc
    /\ UNCHANGED <<prog, calls, hooks, fcall>>

\* the while loop of analyze_from ends: the call returns
Return ==
    /\ pc = "running"
    /\ cur = <<>>
    /\ tracker.pending = <<>>
    /\ pc' = "idle"
    /\ UNCHANGED <<prog, tracker, cur, calls, hooks, fcall>>

\* _validate_hooks(result, tracker) after the analysis
ValidateHooks(hs) ==
    /\ pc = "idle"
    /\ calls > 0
    /\ hooks' = hs
    /\ tracker' = validate_hooks(tracker, hs)
    /\ pc' = "validated"
    /\ UNCHANGED <<prog, cur, calls, fcall>>

Next ==
    \/ \E a \in prog.entries, s \in EntryStates : AnalyzeFrom(a, s)
    \/ PopWork
    \/ TraceStep
    \/ Return
    \/ \E hs \in Manifests(prog) : ValidateHooks(hs)

Spec == Init /\ [][Next]_vars

-----------------------------------------------------------------------------
(* Pure functions applied to enumerated arguments: one call per behaviour *)

\* RegisterState values: every flag combination, small stack depths
RegStates ==
    {[RegisterState(m, x) EXCEPT !.stack_depth = d] :
        m \in Flags, x \in Flags, d \in 0..MaxDepth}

InitFn ==
    /\ prog = Prog(<<>>, "lorom", {})
    /\ tracker = StateTracker
    /\ cur = <<>>
    /\ pc = "fn"
    /\ calls = 0
    /\ hooks = <<>>
    /\ fcall = NoCall

CallStatesCompatible(s1, s2) ==
    /\ pc = "fn"
    /\ fcall = NoCall
    /\ fcall' = [fn |-> "_states_compatible", s1 |-> s1, s2 |-> s2,
                 result |-> states_compatible(s1, s2)]
    /\ UNCHANGED <<prog, tracker, cur, pc, calls, hooks>>

\* the mnemonics get_stack_delta is called with
Mnemonics == DOMAIN STACK_DELTAS

CallGetStackDelta(s, opcode) ==
    /\ pc = "fn"
    /\ fcall = NoCall
    /\ fcall' = [fn |-> "get_stack_delta", s |-> s, opcode |-> opcode,
                 result |-> get_stack_delta(s, opcode)]
    /\ UNCHANGED <<prog, tracker, cur, pc, calls, hooks>>

\* every byte value
Opcodes == 0..255

\* RegisterState values at routine entry: every flag combination
FlagStates == {RegisterState(m, x) : m \in Flags, x \in Flags}

\* get_operand_size as _trace_block calls it on the instruction at $008000
\* of a ROM that holds opcode and three zero bytes; next is the address the
\* trace continues at (None when the block ends there)
CallGetOperandSize(opcode, s) ==
    /\ pc = "fn"
    /\ fcall = NoCall
    /\ LET step == trace_block(Prog(<<opcode, 0, 0, 0>>, "lorom", {}),
                               StateTracker, Trace(LOROM_BASE, s, LOROM_BASE))
       IN  fcall' = [fn |-> "get_operand_size", opcode |-> opcode, s |-> s,
                     result |-> get_operand_size(opcode, m_width(s), x_width(s)),
                     next |-> IF step.status = "continue" THEN step.c.addr
                              ELSE NoneVal]
    /\ UNCHANGED <<prog, tracker, cur, pc, calls, hooks>>


-----------------------------------------------------------------------------
(* parse_hooks_json: the entries of a manifest's "hooks" list *)

\* JSON values of a field: a string (its prefix and the base-36 values of its
\* remaining characters), a number, a boolean, or absent
Str(prefix, digits) == [t |-> "str", prefix |-> prefix, digits |-> digits]
Num(v) == [t |-> "int", v |-> v]
Bool(b) == [t |-> "bool", b |-> b]
Absent == [t |-> "none"]

RECURSIVE DigitsValue(_, _, _)
DigitsValue(digits, base, acc) ==
    IF digits = <<>> THEN acc
    ELSE DigitsValue(Tail(digits), base, (acc * base) + Head(digits))

\* int(text, base): None stands for ValueError
ParseInt(digits, base) ==
    IF digits = <<>> \/ \E i \in DOMAIN digits : digits[i] >= base THEN NoneVal
    ELSE DigitsValue(digits, base, 0)

\* the address of an entry; None stands for the exception raised by
\* addr_str.startswith on a non-string or by int() on an unparsable string
ParseAddress(field) ==
    IF field.t # "str" THEN NoneVal
    ELSE IF field.prefix \in {"0x", "$"} THEN ParseInt(field.digits, 16)
    ELSE ParseInt(field.digits, 10)

coerce_width(value) ==
    IF value.t = "none" THEN NoneVal
    ELSE IF value.t = "str"
      THEN ParseInt(value.digits, IF value.prefix = "0x" THEN 16 ELSE 10)
    ELSE IF value.t = "bool" THEN (IF value.b THEN 8 ELSE 16)
    ELSE value.v

\* exp == 8 if exp is not None else None
WidthFlag(exp) == IF exp = NoneVal THEN UNK ELSE IF exp = 8 THEN T8 ELSE F16

\* the HookInfo of one entry whose address is addr
ParseHook(entry, addr) ==
    LET exp_m == coerce_width(entry.expected_m)
        exp_x == coerce_width(entry.expected_x)
    IN  HookInfo(addr,
                 IF exp_m # NoneVal \/ exp_x # NoneVal
                   THEN <<RegisterState(WidthFlag(exp_m), WidthFlag(exp_x))>>
                   ELSE <<>>,
                 <<>>)

RECURSIVE ParseEntries(_, _)
\* the loop over data['hooks']; raised when an entry raised, and then
\* nothing is returned
ParseEntries(entries, parsed) ==
    IF entries = <<>> THEN [raised |-> FALSE, hooks |-> parsed]
    ELSE LET addr == ParseAddress(Head(entries).address)
         IN  IF addr = NoneVal THEN [raised |-> TRUE, hooks |-> <<>>]
             ELSE ParseEntries(Tail(entries),
                               Append(parsed, ParseHook(Head(entries), addr)))

parse_hooks_json(data) == ParseEntries(data, <<>>)

\* "0x8000", "$8007", "32768", "zz", and the number 32768
AddressFields ==
    { Str("0x", <<8, 0, 0, 0>>), Str("$", <<8, 0, 0, 7>>),
      Str("", <<3, 2, 7, 6, 8>>), Str("", <<35, 35>>), Num(32768) }

\* absent, 16, true, "8", "x"
WidthFields == { Absent, Num(16), Bool(TRUE), Str("", <<8>>), Str("", <<33>>) }

ManifestEntries ==
    {[address |-> a, expected_m |-> Absent, expected_x |-> w] :
        a \in AddressFields, w \in WidthFields}

\* manifests of one or two entries
ManifestData ==
    {<<e>> : e \in ManifestEntries}
      \cup {<<e1, e2>> : e1 \in ManifestEntries, e2 \in ManifestEntries}

CallParseHooksJson(data) ==
    /\ pc = "fn"
    /\ fcall = NoCall
    /\ fcall' = [fn |-> "parse_hooks_json", data |-> data,
                 result |-> parse_hooks_json(data)]
    /\ UNCHANGED <<prog, tracker, cur, pc, calls, hooks>>

\* 24-bit addresses: the first, a middle and the last bank of every bank
\* range the conventions distinguish, at both ends of each half of the bank
SnesAddresses ==
    {(bank * 65536) + offset :
        bank \in {0, 1, 63, 64, 127, 128, 191, 192, 255},
        offset \in {0, 32767, 32768, 65535}}

Mappers == {"lorom", "hirom", "exhirom"}

CallSnesToPc(addr, mapper) ==
    /\ pc = "fn"
    /\ fcall = NoCall
    /\ fcall' = [fn |-> "snes_to_pc", addr |-> addr, mapper |-> mapper,
                 result |-> snes_to_pc(addr, mapper)]
    /\ UNCHANGED <<prog, tracker, cur, pc, calls, hooks>>

\* file offsets inside a 2 MB image
FileOffsets == {0, 32767, 32768, 65535, 65536, 2097151}

\* pc_to_snes, and snes_to_pc applied to its result
CallPcToSnes(offset, mapper) ==
    /\ pc = "fn"
    /\ fcall = NoCall
    /\ fcall' = [fn |-> "pc_to_snes", offset |-> offset, mapper |-> mapper,
                 result |-> pc_to_snes(offset, mapper),
                 back |-> snes_to_pc(pc_to_snes(offset, mapper), mapper)]
    /\ UNCHANGED <<prog, tracker, cur, pc, calls, hooks>>

\* the most references a call graph under test records
MaxEdges == 4

\* call-graph nodes, and the (from, to) pairs a reference may join: the
\* two-cycles 1-2 and 3-4, the three-cycle 1-2-3, and self-edges on 1 and 3
GraphNodes == 1..4

EdgeChoices ==
    {<<1, 1>>, <<1, 2>>, <<2, 1>>, <<2, 3>>, <<3, 1>>, <<3, 3>>, <<3, 4>>, <<4, 3>>}

EdgeLists == UNION {[1..n -> EdgeChoices] : n \in 1..MaxEdges}

RECURSIVE AddReferences(_, _)
\* add_reference for each (from, to) pair in order
AddReferences(cg, edges) ==
    IF edges = <<>> THEN cg
    ELSE AddReferences(add_reference(cg, CrossRef(Head(edges)[1], Head(edges)[2], "jsr")),
                       Tail(edges))

CallFindRecursiveCalls(edges) ==
    /\ pc = "fn"
    /\ fcall = NoCall
    /\ fcall' = [fn |-> "find_recursive_calls", edges |-> edges,
                 result |-> find_recursive_calls(AddReferences(CallGraph, edges))]
    /\ UNCHANGED <<prog, tracker, cur, pc, calls, hooks>>

\* one pure-function call
NextFn ==
    \/ \E s1 \in RegStates, s2 \in RegStates : CallStatesCompatible(s1, s2)
    \/ \E s \in RegStates, opcode \in Mnemonics : CallGetStackDelta(s, opcode)
    \/ \E opcode \in Opcodes, s \in FlagStates : CallGetOperandSize(opcode, s)
    \/ \E data \in ManifestData : CallParseHooksJson(data)
    \/ \E addr \in SnesAddresses, mapper \in Mappers : CallSnesToPc(addr, mapper)
    \/ \E offset \in FileOffsets, mapper \in Mappers : CallPcToSnes(offset, mapper)
    \/ /\ fcall = NoCall
       /\ \E edges \in EdgeLists : CallFindRecursiveCalls(edges)

SpecFn == InitFn /\ [][NextFn]_vars

-----------------------------------------------------------------------------
(* Two analyses side by side: compare_hook_entry_states builds one tracker
   for the baseline ROM and one for the patched ROM *)

Instances == {1, 2}

\* containers held as class attributes: one store for every instance
StoreOfShared(i) == 1

\* the store that holds instance i's visited, pending, cross_refs,
\* diagnostics, call_graph, stack_issues and return_states: __init__ creates
\* them per instance
StoreOf(i) == i

\* analyze_from_vectors: the entry points when the vectors are unreadable
FallbackEntries == <<LOROM_BASE, LOROM_BASE + 201>>

RECURSIVE Drain(_, _, _)
\* the while loop of analyze_from run to its end on one tracker; raised when
\* a trace raised
Drain(p, t, c) ==
    IF c # <<>>
      THEN LET o == trace_block(p, t, c[1])
           IN  IF o.status = "raise" THEN [t |-> o.t, raised |-> TRUE]
               ELSE Drain(p, o.t, IF o.status = "continue" THEN <<o.c>> ELSE <<>>)
    ELSE IF t.pending # <<>>
      THEN LET item == Head(t.pending)
           IN  Drain(p, [t EXCEPT !.pending = Tail(@)],
                     <<Trace(item[1], item[2], item[3])>>)
    ELSE [t |-> t, raised |-> FALSE]

\* analyze_from(start_addr, RegisterState(m_flag=True, x_flag=True))
analyze_from(p, t, start_addr) ==
    Drain(p, [Enqueue(t, start_addr, RegisterState(T8, T8), start_addr)
                EXCEPT !.call_graph = add_entry_point(@, start_addr)], <<>>)

RECURSIVE RunEntries(_, _, _)
RunEntries(p, t, entry_points) ==
    IF entry_points = <<>> THEN t
    ELSE LET r == analyze_from(p, t, Head(entry_points))
         IN  IF r.raised THEN r.t ELSE RunEntries(p, r.t, Tail(entry_points))

\* the tracker analyze_from_vectors leaves when it runs alone
analyze_from_vectors(p) == RunEntries(p, StateTracker, FallbackEntries)

\* the ROM images compared
PairRoms == {RomA, RomB, RomC, RomD, RomTwice, RomTruncated}

InitPair ==
    /\ prog \in {<<Prog(r1, "lorom", {}), Prog(r2, "lorom", {})>> :
                    r1 \in PairRoms, r2 \in PairRoms}
    /\ tracker = <<StateTracker, StateTracker>>
    /\ cur = << <<>>, <<>> >>
    /\ pc = <<"idle", "idle">>
    /\ calls = <<0, 0>>
    /\ hooks = <<>>
    /\ fcall = NoCall

\* instance i enters analyze_from for its next entry point
PairAnalyzeFrom(i) ==
    /\ pc[i] = "idle"
    /\ calls[i] < Len(FallbackEntries)
    /\ LET a == FallbackEntries[calls[i] + 1]
           t == tracker[StoreOf(i)]
       IN  tracker' = [tracker EXCEPT ![StoreOf(i)] =
                         [Enqueue(t, a, RegisterState(T8, T8), a)
                            EXCEPT !.call_graph = add_entry_point(@, a)]]
    /\ pc' = [pc EXCEPT ![i] = "running"]
    /\ calls' = [calls EXCEPT ![i] = @ + 1]
    /\ UNCHANGED <<prog, cur, hooks, fcall>>

PairPopWork(i) ==
    /\ pc[i] = "running"
    /\ cur[i] = <<>>
    /\ tracker[StoreOf(i)].pending # <<>>
    /\ LET item == Head(tracker[StoreOf(i)].pending)
       IN  /\ cur' = [cur EXCEPT ![i] = <<Trace(item[1], item[2], item[3])>>]
           /\ tracker' = [tracker EXCEPT ![StoreOf(i)].pending = Tail(@)]
    /\ UNCHANGED <<prog, pc, calls, hooks, fcall>>

PairTraceStep(i) ==
    /\ pc[i] = "running"
    /\ cur[i] # <<>>
    /\ LET o == trace_block(prog[i], tracker[StoreOf(i)], cur[i][1])
       IN  /\ tracker' = [tracker EXCEPT ![StoreOf(i)] = o.t]
           /\ cur' = [cur EXCEPT ![i] = IF o.status = "continue" THEN <<o.c>>
                                       ELSE <<>>]
           /\ pc' = [pc EXCEPT ![i] = IF o.status = "raise" THEN "raised" ELSE @]
    /\ UNCHANGED <<prog, calls, hooks, fcall>>

PairReturn(i) ==
    /\ pc[i] = "running"
    /\ cur[i] = <<>>
    /\ tracker[StoreOf(i)].pending = <<>>
    /\ pc' = [pc EXCEPT ![i] = "idle"]
    /\ UNCHANGED <<prog, tracker, cur, calls, hooks, fcall>>

NextPair ==
    \E i \in Instances :
        \/ PairAnalyzeFrom(i)
        \/ PairPopWork(i)
        \/ PairTraceStep(i)
        \/ PairReturn(i)

SpecPair == InitPair /\ [][NextPair]_vars

-----------------------------------------------------------------------------
(* Properties *)

\* a trace is at an instruction: the next step is an iteration of the loop
Tracing == pc = "running" /\ cur # <<>>

\* an analyze_from call has returned
Analysed == pc = "idle" /\ calls > 0

\* C1: the visited map is append-once: an entry, once written, is never
\* removed and its snapshot (M, X, stack depth, stack-op log) never changes,
\* whatever the traces do afterwards.
C1_VisitedAppendOnce ==
    [][\A a \in DOMAIN tracker.visited :
          /\ a \in DOMAIN tracker'.visited
          /\ tracker'.visited[a] = tracker.visited[a]]_vars

\* C1 witness: a later work item has reached a visited address with a state
\* incompatible with the snapshot (reported as a state mismatch), and the
\* snapshot of that address is still in the map.
C1_Witness ==
    \E i \in DOMAIN tracker.diagnostics :
        /\ tracker.diagnostics[i].message = "State mismatch"
        /\ tracker.diagnostics[i].address \in DOMAIN tracker.visited

\* C10: a trace that arrives at an already-visited address with M and X
\* identical to the stored snapshot changes nothing: visited, the pending
\* worklist, diagnostics, stack issues, cross-references, call-graph edges
\* and return states stay as they are.
C10_RetraceIdempotent ==
    [][(/\ Tracing
        /\ cur[1].addr \in DOMAIN tracker.visited
        /\ tracker.visited[cur[1].addr].m_flag = cur[1].state.m_flag
        /\ tracker.visited[cur[1].addr].x_flag = cur[1].state.x_flag)
       => /\ tracker'.visited = tracker.visited
          /\ tracker'.pending = tracker.pending
          /\ tracker'.diagnostics = tracker.diagnostics
          /\ tracker'.stack_issues = tracker.stack_issues
          /\ tracker'.cross_refs = tracker.cross_refs
          /\ tracker'.call_graph.forward = tracker.call_graph.forward
          /\ tracker'.call_graph.reverse = tracker.call_graph.reverse
          /\ tracker'.return_states = tracker.return_states
          /\ cur' = <<>>]_vars

\* C10 witness: the work item of a second analyze_from call stands at its
\* start address, which an earlier call visited with the same M and X.
C10_Witness ==
    /\ Tracing
    /\ calls = 2
    /\ cur[1].addr = cur[1].routine_start
    /\ cur[1].state.stack_ops = <<>>
    /\ cur[1].addr \in DOMAIN tracker.visited
    /\ tracker.visited[cur[1].addr].m_flag = cur[1].state.m_flag
    /\ tracker.visited[cur[1].addr].x_flag = cur[1].state.x_flag
    /\ tracker.cross_refs # <<>>

\* C8: REP and SEP with a readable mask change exactly the flags whose mask
\* bit is set (0x20: M, 0x10: X; REP to 16-bit, SEP to 8-bit), the other flag
\* keeps its tri-state value, the trace goes on at the following instruction,
\* and the snapshot a trace stores at an instruction is its working state.
C8_RepSepFrame ==
    [][(Tracing /\ cur[1].addr \notin DOMAIN tracker.visited)
       => LET c == cur[1]
              opcode == read_byte(prog, c.addr)
              mask == read_byte(prog, c.addr + 1)
              value == IF opcode = 194 THEN F16 ELSE T8
          IN  /\ tracker'.visited[c.addr].m_flag = c.state.m_flag
              /\ tracker'.visited[c.addr].x_flag = c.state.x_flag
              /\ (opcode \in {194, 226} /\ mask # NoneVal)
                 => /\ cur' # <<>>
                    /\ cur'[1].addr = c.addr + 2
                    /\ cur'[1].state.m_flag =
                         (IF (mask \div 32) % 2 = 1 THEN value ELSE c.state.m_flag)
                    /\ cur'[1].state.x_flag =
                         (IF (mask \div 16) % 2 = 1 THEN value ELSE c.state.x_flag)]_vars

\* C8 witness: SEP #$10 was traced with M and X unknown; the snapshot at the
\* following instruction has M still unknown and X 8-bit.
C8_Witness ==
    \E a \in DOMAIN tracker.visited :
        /\ read_byte(prog, a) = 226
        /\ read_byte(prog, a + 1) = 16
        /\ tracker.visited[a].m_flag = UNK
        /\ tracker.visited[a].x_flag = UNK
        /\ a + 2 \in DOMAIN tracker.visited
        /\ tracker.visited[a + 2].m_flag = UNK
        /\ tracker.visited[a + 2].x_flag = T8

\* C9: _states_compatible is reflexive and symmetric; two states are
\* compatible iff both flags are, and per flag the only incompatible pair is
\* known-8 against known-16 (unknown is compatible with either).
C9_CompatibleRelation ==
    fcall.fn = "_states_compatible" =>
        /\ fcall.result = states_compatible(fcall.s2, fcall.s1)
        /\ states_compatible(fcall.s1, fcall.s1)
        /\ fcall.result =
             (/\ {fcall.s1.m_flag, fcall.s2.m_flag} # {T8, F16}
              /\ {fcall.s1.x_flag, fcall.s2.x_flag} # {T8, F16})

\* C9 witness: unknown M against known-8 M (X known-16 on both sides) was
\* found compatible.
C9_Witness ==
    /\ fcall.fn = "_states_compatible"
    /\ fcall.s1.m_flag = UNK /\ fcall.s2.m_flag = T8
    /\ fcall.s1.x_flag = F16 /\ fcall.s2.x_flag = F16
    /\ fcall.result


\* C2 (as claimed): whenever an analyze_from call has ended, the pending
\* worklist is empty.
C2_EndsWithPendingEmpty == pc # "running" => tracker.pending = <<>>

\* no trace step raises
NeverRaises == pc' # "raised"

\* C7 (as claimed): no step of the analysis raises, and a step whose opcode
\* byte, or whose call/jump/branch operand, is unreadable emits no diagnostic,
\* records no cross-reference and enqueues no work item.
C7_UnreadableIsSilent ==
    [][/\ NeverRaises
       /\ (Tracing /\ cur[1].addr \notin DOMAIN tracker.visited)
          => LET c == cur[1]
                 opcode == read_byte(prog, c.addr)
                 operand ==
                   IF opcode \in DOMAIN CALL_OPCODES
                     THEN (IF CALL_OPCODES[opcode][2] = 2
                             THEN read_word(prog, c.addr + 1)
                             ELSE read_long(prog, c.addr + 1))
                   ELSE IF opcode \in DOMAIN JUMP_OPCODES
                     THEN (IF JUMP_OPCODES[opcode][2] = 2
                             THEN read_word(prog, c.addr + 1)
                             ELSE read_long(prog, c.addr + 1))
                   ELSE IF opcode = 130 THEN read_word(prog, c.addr + 1)
                   ELSE IF opcode \in DOMAIN BRANCH_OPCODES
                     THEN read_byte(prog, c.addr + 1)
                   ELSE 0
             IN  (opcode = NoneVal \/ operand = NoneVal)
                 => /\ tracker'.diagnostics = tracker.diagnostics
                    /\ tracker'.stack_issues = tracker.stack_issues
                    /\ tracker'.cross_refs = tracker.cross_refs
                    /\ tracker'.call_graph = tracker.call_graph
                    /\ tracker'.pending = tracker.pending]_vars

\* the two programs of Scenario D, traced from routine A = $008000
ScenarioD == prog.rom \in {RomD, RomDInner} /\ Analysed

\* C5 (as claimed): when A calls B and B calls A, wherever the call sites are
\* in the routines, the cycle detector reports exactly one component, and it
\* holds the entry addresses of A and B.
C5_MutualRecursionReported ==
    ScenarioD =>
        LET sccs == find_recursive_calls(tracker.call_graph)
            B == IF prog.rom = RomD THEN LOROM_BASE + 4 ELSE LOROM_BASE + 5
        IN  /\ Len(sccs) = 1
            /\ \E i \in DOMAIN sccs[1] : sccs[1][i] = LOROM_BASE
            /\ \E i \in DOMAIN sccs[1] : sccs[1][i] = B

\* the mnemonics of the push and pull instruction tables
PushPullMnemonics ==
    {PUSH_OPCODES[o] : o \in DOMAIN PUSH_OPCODES}
      \cup {PULL_OPCODES[o] : o \in DOMAIN PULL_OPCODES}

\* the pushes and pulls logged in a return state are status pushes only, at
\* least one, and no pull-status ran on the trace (each lowers stack_depth
\* without a log entry)
OnlyPushedStatus(state) ==
    /\ \E i \in DOMAIN state.stack_ops : state.stack_ops[i].opcode = "PHP"
    /\ \A i \in DOMAIN state.stack_ops :
         state.stack_ops[i].opcode \in PushPullMnemonics
           => state.stack_ops[i].opcode = "PHP"
    /\ state.stack_depth =
         SumSeq([i \in DOMAIN state.stack_ops |-> state.stack_ops[i].delta])

\* C4: a routine that pushes status and returns without a pull gets exactly
\* one stack-imbalance warning at that return address, with a non-zero
\* residual depth, and its recorded return state logs more PHP than PLP.
C4_PhpWithoutPlp ==
    \A r \in DOMAIN tracker.return_states :
      \A k \in DOMAIN tracker.return_states[r] :
        LET ret_addr == tracker.return_states[r][k][1]
            state == tracker.return_states[r][k][2]
            warnings == {i \in DOMAIN tracker.stack_issues :
                           /\ tracker.stack_issues[i].message = "Stack imbalance"
                           /\ tracker.stack_issues[i].address = ret_addr}
        IN  OnlyPushedStatus(state)
            => /\ Cardinality(warnings) = 1
               /\ \A i \in warnings :
                    /\ tracker.stack_issues[i].severity = "warning"
                    /\ tracker.stack_issues[i].context.balance # 0
               /\ CountOp(state.stack_ops, "PHP") > CountOp(state.stack_ops, "PLP")

\* C4 witness: Scenario C analysed: PHP ; SEP #$30 ; NOP ; RTL returned at
\* $008004 with one status byte left on the stack.
C4_Witness ==
    /\ Analysed
    /\ prog.rom = RomC
    /\ LOROM_BASE \in DOMAIN tracker.return_states
    /\ tracker.return_states[LOROM_BASE][1][1] = LOROM_BASE + 4
    /\ OnlyPushedStatus(tracker.return_states[LOROM_BASE][1][2])
    /\ \E i \in DOMAIN tracker.stack_issues :
         /\ tracker.stack_issues[i].message = "Stack imbalance"
         /\ tracker.stack_issues[i].context.balance = 1


\* the elements of a sequence
Range(seq) == {seq[i] : i \in DOMAIN seq}

\* every reference the call graph holds
AllRefs == Range(FlattenRefs(tracker.call_graph, tracker.call_graph.forward_keys))

\* C6 (as claimed): find_cross_bank_calls returns exactly the recorded call
\* and jump references, long ones included, whose source and destination banks
\* differ; Scenario E returns exactly one reference, the call into bank 2.
C6_AnyCallOrJump ==
    LET result == find_cross_bank_calls(tracker.call_graph)
    IN  /\ Range(result) = {r \in AllRefs :
                              /\ r.kind \in {"jsr", "jsl", "jmp", "jml"}
                              /\ r.from_bank # r.to_bank}
        /\ (Analysed /\ prog.rom = RomE)
             => /\ Len(result) = 1
                /\ result[1].to_bank = 2

\* C6 (amended): find_cross_bank_calls returns exactly the recorded references
\* of kind jsr or jmp whose banks differ; a long call into another
\* bank is recorded with kind jsl and is not returned, so Scenario E (a JSL
\* from bank 0 into bank 2 and a JSR inside bank 0) returns no reference.
C6_ShortCallsAndJumpsOnly ==
    LET result == find_cross_bank_calls(tracker.call_graph)
    IN  /\ Range(result) = {r \in AllRefs :
                              /\ r.kind \in {"jsr", "jmp"}
                              /\ r.from_bank # r.to_bank}
        /\ (Analysed /\ prog.rom = RomE) => result = <<>>

\* C6 witness: Scenario E analysed: the call graph holds the JSL from bank 0
\* into bank 2 and the JSR that stays in bank 0, and nothing is returned.
C6_Witness ==
    /\ Analysed
    /\ prog.rom = RomE
    /\ \E r \in AllRefs : r.kind = "jsl" /\ r.from_bank = 0 /\ r.to_bank = 2
    /\ \E r \in AllRefs : r.kind = "jsr" /\ r.from_bank = 0 /\ r.to_bank = 0
    /\ find_cross_bank_calls(tracker.call_graph) = <<>>

\* Scenario A: SEP #$30 at $008000, JSL $008007 at $008002, the callee's RTL
\* at $008007; the callee's contract requires 16-bit index registers
CallSiteA == LOROM_BASE + 2

CalleeA == LOROM_BASE + 7

HookA == HookInfo(CalleeA, <<RegisterState(UNK, F16)>>, <<>>)

\* the caller and the callee of Scenario A have both been traced
ScenarioA ==
    /\ Analysed
    /\ prog.rom = RomA
    /\ CallSiteA \in DOMAIN tracker.visited
    /\ CalleeA \in DOMAIN tracker.visited

\* the diagnostic names the X flag
NamesX(d) == \E i \in DOMAIN d.context : d.context[i] \in {"X flag", "X flag mismatch"}

\* what the contract post-pass and the JSL scan report after the trace
ContractReport == ValidateHook(tracker, HookA)

JslReport == find_mx_mismatches(prog, tracker, {})

\* the diagnostics of the whole analysis
AllDiagnostics == tracker.diagnostics \o ContractReport \o JslReport

C11_StackDeltaWidth ==
    fcall.fn = "get_stack_delta" =>
        LET m16 == fcall.s.m_flag = F16
            x16 == fcall.s.x_flag = F16
            o == fcall.opcode
            fixed == [PHP |-> 1, PLP |-> -1, PHB |-> 1, PLB |-> -1, PHK |-> 1,
                      PHD |-> 2, PLD |-> -2, PEA |-> 2, PEI |-> 2, PER |-> 2,
                      JSR |-> 2, JSL |-> 3, RTS |-> -2, RTL |-> -3, RTI |-> -3]
        IN  /\ o = "PHA" => fcall.result = (IF m16 THEN 2 ELSE 1)
            /\ o = "PLA" => fcall.result = (IF m16 THEN -2 ELSE -1)
            /\ o \in {"PHX", "PHY"} => fcall.result = (IF x16 THEN 2 ELSE 1)
            /\ o \in {"PLX", "PLY"} => fcall.result = (IF x16 THEN -2 ELSE -1)
            /\ o \in DOMAIN fixed => fcall.result = fixed[o]
            /\ o \in {"PHA", "PLA", "PHX", "PHY", "PLX", "PLY"} \cup DOMAIN fixed

\* C11 witness: PLY on a state with X known-16-bit and M unknown pulled two
\* bytes.
C11_Witness ==
    /\ fcall.fn = "get_stack_delta"
    /\ fcall.opcode = "PLY"
    /\ fcall.s.x_flag = F16
    /\ fcall.s.m_flag = UNK
    /\ fcall.result = -2


\* C12 (as claimed): over a whole analysis at most one state-mismatch warning
\* is emitted for any address.
C12_MismatchOncePerAddress ==
    \A i, j \in DOMAIN tracker.diagnostics :
        (/\ tracker.diagnostics[i].message = "State mismatch"
         /\ tracker.diagnostics[j].message = "State mismatch"
         /\ tracker.diagnostics[i].address = tracker.diagnostics[j].address)
        => i = j


\* both flags are known and they differ
Differs(f1, f2) == {f1, f2} = {T8, F16}

\* the flags of a contract that a known analysed state contradicts, as the
\* post-pass names them
Contradicted(expected, actual) ==
    (IF Differs(expected.m_flag, actual.m_flag) THEN <<"M flag">> ELSE <<>>)
    \o (IF Differs(expected.x_flag, actual.x_flag) THEN <<"X flag">> ELSE <<>>)

\* C13: the contract post-pass reports an error exactly when a contract flag
\* and the analysed flag are both known and differ: one error at the hook
\* address for the entry contract (against visited[hook]) and one error at
\* each return address recorded for the hook for the exit contract; with
\* either side of a flag unknown there is no error, and an unknown M or X at
\* the hook's entry yields a warning only.
C13_ContractErrors ==
    pc = "validated" =>
        LET h == hooks[1]
            d == tracker.diagnostics
            reached == h.address \in DOMAIN tracker.visited
            actual == tracker.visited[h.address]
            rets == IF reached THEN DictGet(tracker.return_states, h.address, <<>>)
                    ELSE <<>>
            errors == {i \in DOMAIN d : d[i].severity = "error"}
            entry_errors == {i \in errors : d[i].message = "entry state mismatch"}
            exit_errors == {i \in errors : d[i].message = "exit state mismatch"}
            entry_bad == IF reached
                           THEN Contradicted(h.expected_entry_state[1], actual)
                           ELSE <<>>
            bad_rets == {k \in DOMAIN rets :
                           Contradicted(h.expected_exit_state[1], rets[k][2]) # <<>>}
        IN  /\ errors = entry_errors \cup exit_errors
            /\ Cardinality(entry_errors) = (IF entry_bad # <<>> THEN 1 ELSE 0)
            /\ \A i \in entry_errors :
                 d[i].address = h.address /\ d[i].context = entry_bad
            /\ Cardinality(exit_errors) = Cardinality(bad_rets)
            /\ \A k \in bad_rets :
                 Cardinality({i \in exit_errors :
                    /\ d[i].address = rets[k][1]
                    /\ d[i].context =
                         Contradicted(h.expected_exit_state[1], rets[k][2])}) = 1
            /\ (reached /\ actual.m_flag = UNK)
                 => /\ \E i \in DOMAIN d :
                         /\ d[i].message = "M flag unknown at entry"
                         /\ d[i].severity = "warning"
                         /\ d[i].address = h.address
                    /\ \A i \in entry_errors : d[i].context # <<"M flag">>
            /\ (reached /\ actual.x_flag = UNK)
                 => /\ \E i \in DOMAIN d :
                         /\ d[i].message = "X flag unknown at entry"
                         /\ d[i].severity = "warning"
                         /\ d[i].address = h.address
                    /\ \A i \in entry_errors : d[i].context # <<"X flag">>

\* C13 witness: a hook entered with M unknown and X 16-bit against a contract
\* of 8-bit registers: one entry error naming X only, the unknown-M warning,
\* and an exit error at a return address where the routine left X 8-bit
\* against the 16-bit exit contract.
C13_Witness ==
    /\ pc = "validated"
    /\ hooks[1].address \in DOMAIN tracker.visited
    /\ tracker.visited[hooks[1].address].m_flag = UNK
    /\ hooks[1].expected_entry_state[1].m_flag = T8
    /\ \E i \in DOMAIN tracker.diagnostics :
         /\ tracker.diagnostics[i].message = "entry state mismatch"
         /\ tracker.diagnostics[i].context = <<"X flag">>
    /\ \E i \in DOMAIN tracker.diagnostics :
         /\ tracker.diagnostics[i].message = "exit state mismatch"
         /\ tracker.diagnostics[i].address # hooks[1].address
    /\ \E i \in DOMAIN tracker.diagnostics :
         tracker.diagnostics[i].message = "M flag unknown at entry"


\* Scenario B has the layout of Scenario A (call site $008002, callee
\* $008007, the same contract) with REP #$30 in front of the call.  It is
\* analysed from the caller alone, or from the callee first, in a state whose
\* X is not 8-bit, and then once from the caller (a callee snapshot with an
\* empty stack-op log was taken at an entry, not through the JSL)
ScenarioB ==
    /\ Analysed
    /\ prog.rom = RomB
    /\ CallSiteA \in DOMAIN tracker.visited
    /\ CalleeA \in DOMAIN tracker.visited
    /\ \/ calls = 1
       \/ /\ calls = 2
          /\ tracker.call_graph.entry_points = {LOROM_BASE, CalleeA}
          /\ tracker.visited[CalleeA].stack_ops = <<>>
          /\ tracker.visited[CalleeA].x_flag # T8

ImmediateM == {9, 41, 73, 105, 137, 169, 201, 233}

ImmediateX == {160, 162, 192, 224}

\* C15: the operand length depends on the width flags only for immediate
\* operands: the accumulator width (2 exactly when M is known-16-bit) for
\* 09/29/49/69/89/A9/C9/E9, the index width (by X) for A0/A2/C0/E0, a value
\* independent of M and X for every other opcode; a trace that continues past
\* the instruction continues 1 plus that length further, by the flags the
\* trace holds at the instruction.
C15_OperandLengthByWidth ==
    fcall.fn = "get_operand_size" =>
        LET o == fcall.opcode
            expected ==
              IF o \in ImmediateM THEN (IF fcall.s.m_flag = F16 THEN 2 ELSE 1)
              ELSE IF o \in ImmediateX THEN (IF fcall.s.x_flag = F16 THEN 2 ELSE 1)
              ELSE get_operand_size(o, 1, 1)
        IN  /\ fcall.result = expected
            /\ o \notin ImmediateM \cup ImmediateX
                 => \A mw, xw \in {1, 2} : get_operand_size(o, mw, xw) = expected
            /\ fcall.next # NoneVal => fcall.next = LOROM_BASE + 1 + expected

\* C15 witness: LDA #imm (A9) traced with M known-16-bit and X 8-bit has a
\* two-byte operand and the trace continues three bytes further.
C15_Witness ==
    /\ fcall.fn = "get_operand_size"
    /\ fcall.opcode = 169
    /\ fcall.s.m_flag = F16
    /\ fcall.s.x_flag = T8
    /\ fcall.result = 2
    /\ fcall.next = LOROM_BASE + 3


\* C16 (as claimed): get_operand_size returns the architectural operand byte
\* count of every opcode; in particular 1 for LDY dp (A4) and LDA (dp),Y (B1),
\* 2 for STY abs (8C) and LDA abs,Y (B9), and 1 for the reserved WDM (42).
C16_ArchitecturalOperandSize ==
    fcall.fn = "get_operand_size" =>
        /\ fcall.opcode \in {164, 177} => fcall.result = 1
        /\ fcall.opcode \in {140, 185} => fcall.result = 2
        /\ fcall.opcode = 66 => fcall.result = 1


\* analyze_from_vectors of instance i has ended
Finished(i) ==
    \/ pc[i] = "raised"
    \/ pc[i] = "idle" /\ calls[i] = Len(FallbackEntries)

\* C17: two trackers analysing two ROMs do not interfere: under every
\* interleaving of their steps, each tracker ends with the visited map,
\* return states, cross-references, call graph and diagnostics it produces
\* when it runs alone.
C17_RunsIndependent ==
    \A i \in Instances :
        Finished(i) =>
            LET t == tracker[StoreOf(i)]
                alone == analyze_from_vectors(prog[i])
            IN  /\ t.visited = alone.visited
                /\ t.return_states = alone.return_states
                /\ t.cross_refs = alone.cross_refs
                /\ t.call_graph = alone.call_graph
                /\ t.diagnostics = alone.diagnostics

\* C17 witness: the patched run has ended while the baseline run, on a
\* different ROM, is in the middle of a trace with addresses already visited.
C17_Witness ==
    /\ pc = <<"running", "idle">>
    /\ calls[2] = Len(FallbackEntries)
    /\ prog[1].rom # prog[2].rom
    /\ cur[1] # <<>>
    /\ DOMAIN tracker[1].visited # {}
    /\ DOMAIN tracker[2].visited # {}
    /\ tracker[2].cross_refs # <<>>


\* the entry's address is a string that int() parses
WellFormed(entry) == ParseAddress(entry.address) # NoneVal

\* C18 (as claimed): loading a manifest never fails, and it returns one hook
\* for every well-formed entry, in order, skipping the entries whose address
\* is malformed.
C18_MalformedEntriesSkipped ==
    fcall.fn = "parse_hooks_json" =>
        LET good == SelectSeq(fcall.data, WellFormed)
        IN  /\ ~fcall.result.raised
            /\ Len(fcall.result.hooks) = Len(good)
            /\ \A i \in DOMAIN good :
                 fcall.result.hooks[i].address = ParseAddress(good[i].address)


\* the address lies in a ROM window of LoROM: the upper half of a bank
\* outside $40-$7F
InLoRomWindow(addr) ==
    LET bank == (addr \div 65536) % 256
    IN  addr % 65536 >= 32768 /\ ~(64 <= bank /\ bank <= 127)

\* C19 (as claimed): snes_to_pc returns the sentinel -1 exactly when the
\* address lies outside the ROM windows of the convention (LoROM: offsets
\* below $8000 and banks $40-$7F; any unknown mapper) and a non-negative
\* offset otherwise, and snes_to_pc(pc_to_snes(pc)) = pc for the offsets the
\* convention maps.
C19_SentinelExactlyWhenUnmapped ==
    /\ fcall.fn = "snes_to_pc" =>
         /\ fcall.result = -1 \/ fcall.result >= 0
         /\ fcall.mapper = "lorom" =>
              (fcall.result = -1 <=> ~InLoRomWindow(fcall.addr))
         /\ fcall.mapper \notin {"lorom", "hirom"} => fcall.result = -1
    /\ (fcall.fn = "pc_to_snes" /\ fcall.mapper \in {"lorom", "hirom"})
         => fcall.back = fcall.offset


\* the return of routine R of RomCallerPush
ReturnOfR == LOROM_BASE + 6

\* C20 (as claimed): the balance check at a return of routine R counts only
\* the stack operations executed since R was entered: R of RomCallerPush
\* executes none, so the PHP its caller made before the JSR produces no
\* stack-imbalance or unbalanced-pair warning at R's return.
C20_CallerPushesNotCharged ==
    (Analysed /\ prog.rom = RomCallerPush /\ ReturnOfR \in DOMAIN tracker.visited)
        => \A i \in DOMAIN tracker.stack_issues :
             tracker.stack_issues[i].address # ReturnOfR


\* the sum of the deltas a state's log holds
LogSum(state) ==
    SumSeq([i \in DOMAIN state.stack_ops |-> state.stack_ops[i].delta])

\* C21 (as claimed): every stack-mutating instruction, PLP included, appends
\* one StackOp whose delta is its change to stack_depth, so in every state a
\* trace snapshots or records at a return stack_depth is the sum of the log;
\* and the routine PHP ; body ; PLP ; return gets no stack-imbalance and no
\* unbalanced PHP/PLP warning.
C21_DepthIsSumOfLog ==
    /\ \A a \in DOMAIN tracker.visited :
         tracker.visited[a].stack_depth = LogSum(tracker.visited[a])
    /\ \A r \in DOMAIN tracker.return_states :
         \A k \in DOMAIN tracker.return_states[r] :
           tracker.return_states[r][k][2].stack_depth
             = LogSum(tracker.return_states[r][k][2])
    /\ (Analysed /\ prog.rom = RomPhpPlp) => tracker.stack_issues = <<>>


\* JMP and JML in every addressing form, BRA and BRL
UnconditionalOpcodes == DOMAIN JUMP_OPCODES \cup {128, 130}

\* the trace in progress is at an instruction it has not visited, and the
\* three bytes after the opcode are readable
AtFreshInstruction ==
    /\ pc = "running"
    /\ cur # <<>>
    /\ ~AlreadyVisited(tracker, cur[1].addr)
    /\ \A i \in 0..3 : read_byte(prog, cur[1].addr + i) # NoneVal

\* C22 (as claimed): an unconditional transfer (JMP/JML in every form, BRA,
\* BRL) records one cross-reference from its address, enqueues its target
\* tagged with the current routine start, and ends the trace, so the address
\* after the instruction is not visited by that trace.
C22_UnconditionalEndsBlock ==
    [][ (AtFreshInstruction
         /\ read_byte(prog, cur[1].addr) \in UnconditionalOpcodes)
        => /\ cur' = <<>>
           /\ Len(tracker'.cross_refs) = Len(tracker.cross_refs) + 1
           /\ tracker'.cross_refs[Len(tracker'.cross_refs)].from_addr = cur[1].addr
           /\ Len(tracker'.pending) = Len(tracker.pending) + 1
           /\ LET item == tracker'.pending[Len(tracker'.pending)]
              IN  /\ item[1] = tracker'.cross_refs[Len(tracker'.cross_refs)].to_addr
                  /\ item[3] = cur[1].routine_start ]_vars


\* the target of the call instruction at addr, NoneVal when unreadable
CallTarget(p, addr) ==
    LET opcode == read_byte(p, addr)
        word == read_word(p, addr + 1)
        long == read_long(p, addr + 1)
    IN  IF opcode = 34 THEN long
        ELSE IF word = NoneVal THEN NoneVal
        ELSE BankOf(addr) + word

\* the trace in progress is at a call instruction it has not visited, whose
\* target is readable
AtCall ==
    /\ Tracing
    /\ ~AlreadyVisited(tracker, cur[1].addr)
    /\ read_byte(prog, cur[1].addr) \in DOMAIN CALL_OPCODES
    /\ CallTarget(prog, cur[1].addr) # NoneVal

SameMX(s1, s2) == s1.m_flag = s2.m_flag /\ s1.x_flag = s2.x_flag

\* C23: a call with a readable target records one jsr/jsl cross-reference to
\* the target, enqueues (target, state with the caller's M and X, target) and
\* continues the caller's trace at the instruction after the call with M and
\* X as they were at the call site; a work item enters its trace with the
\* state it was queued with, the first visit of an address snapshots the M
\* and X of the trace that reaches it, and no step changes a work item that
\* stays queued.
C23_CallPreservesWidths ==
    [][ /\ AtCall =>
            LET c == cur[1]
                target == CallTarget(prog, c.addr)
                size == IF read_byte(prog, c.addr) = 34 THEN 3 ELSE 2
                n == Len(tracker.cross_refs)
                k == Len(tracker.pending)
            IN  /\ Len(tracker'.cross_refs) = n + 1
                /\ tracker'.cross_refs[n + 1].from_addr = c.addr
                /\ tracker'.cross_refs[n + 1].to_addr = target
                /\ tracker'.cross_refs[n + 1].kind = (IF size = 3 THEN "jsl" ELSE "jsr")
                /\ Len(tracker'.pending) = k + 1
                /\ tracker'.pending[k + 1][1] = target
                /\ tracker'.pending[k + 1][3] = target
                /\ SameMX(tracker'.pending[k + 1][2], c.state)
                /\ cur' # <<>>
                /\ cur'[1].addr = c.addr + 1 + size
                /\ cur'[1].routine_start = c.routine_start
                /\ SameMX(cur'[1].state, c.state)
        /\ (pc = "running" /\ cur = <<>> /\ cur' # <<>>) =>
              /\ cur'[1].addr = tracker.pending[1][1]
              /\ SameMX(cur'[1].state, tracker.pending[1][2])
              /\ cur'[1].routine_start = tracker.pending[1][3]
        /\ (Tracing /\ ~AlreadyVisited(tracker, cur[1].addr)) =>
              /\ cur[1].addr \in DOMAIN tracker'.visited
              /\ SameMX(tracker'.visited[cur[1].addr], cur[1].state)
        /\ Tracing =>
              \A i \in DOMAIN tracker.pending :
                 /\ i \in DOMAIN tracker'.pending
                 /\ tracker'.pending[i] = tracker.pending[i] ]_vars

\* C23 witness: Scenario A after its JSL: the caller's trace stands at
\* $008006 with M and X 8-bit, and the callee is queued with the same widths,
\* tagged with itself.
C23_Witness ==
    /\ Tracing
    /\ prog.rom = RomA
    /\ cur[1].addr = CallSiteA + 4
    /\ cur[1].state.m_flag = T8 /\ cur[1].state.x_flag = T8
    /\ tracker.pending # <<>>
    /\ tracker.pending[1][1] = CalleeA
    /\ tracker.pending[1][3] = CalleeA
    /\ tracker.pending[1][2].x_flag = T8
    /\ \E i \in DOMAIN tracker.cross_refs :
         tracker.cross_refs[i].kind = "jsl" /\ tracker.cross_refs[i].to_addr = CalleeA


\* the declared entry points and the targets of recorded calls
RoutineStarts ==
    tracker.call_graph.entry_points
    \cup {tracker.cross_refs[i].to_addr :
            i \in {j \in DOMAIN tracker.cross_refs :
                     tracker.cross_refs[j].kind \in {"jsr", "jsl"}}}

\* the return-state list of routine r, empty when r has none
ReturnsOf(t, r) == DictGet(t.return_states, r, <<>>)

\* the trace in progress is at an instruction it has not visited
AtFresh(opcodes) ==
    /\ Tracing
    /\ ~AlreadyVisited(tracker, cur[1].addr)
    /\ read_byte(prog, cur[1].addr) \in opcodes

\* C24: a return appends one pair (return address, state) to the list of the
\* routine-start tag of the trace that reached it and to no other list, and
\* no other step changes return_states; the tag of every work item and of
\* the trace in progress, hence every key of return_states, is a declared
\* entry point or a call target; a branch or jump queues its target under
\* the tag of its own trace, and a trace keeps its tag from step to step.
C24_ReturnsAttributed ==
    [][ /\ \A i \in DOMAIN tracker.pending : tracker.pending[i][3] \in RoutineStarts
        /\ cur # <<>> => cur[1].routine_start \in RoutineStarts
        /\ DOMAIN tracker.return_states \subseteq RoutineStarts
        /\ AtFresh(DOMAIN RETURN_OPCODES) =>
              LET r == cur[1].routine_start
                  old == ReturnsOf(tracker, r)
              IN  /\ Len(ReturnsOf(tracker', r)) = Len(old) + 1
                  /\ ReturnsOf(tracker', r)[Len(old) + 1][1] = cur[1].addr
                  /\ \A q \in DOMAIN tracker'.return_states :
                       q # r => ReturnsOf(tracker', q) = ReturnsOf(tracker, q)
                  /\ \A k \in DOMAIN old : ReturnsOf(tracker', r)[k] = old[k]
        /\ ~AtFresh(DOMAIN RETURN_OPCODES) =>
              tracker'.return_states = tracker.return_states
        /\ (AtFresh(DOMAIN JUMP_OPCODES \cup DOMAIN BRANCH_OPCODES)
            /\ Len(tracker'.pending) = Len(tracker.pending) + 1) =>
              tracker'.pending[Len(tracker'.pending)][3] = cur[1].routine_start
        /\ (Tracing /\ cur' # <<>>) =>
              cur'[1].routine_start = cur[1].routine_start ]_vars

\* C24 witness: the RTL at $00800B of RomJumps, reached from $008000 through
\* a jump and two branches, is recorded under $008000; and Scenario A's
\* callee, a call target that is not an entry point, owns its own return.
C24_Witness ==
    /\ Analysed
    /\ \/ /\ prog.rom = RomJumps
          /\ DOMAIN tracker.return_states = {LOROM_BASE}
          /\ tracker.return_states[LOROM_BASE][1][1] = LOROM_BASE + 11
       \/ /\ prog.rom = RomA
          /\ CalleeA \notin tracker.call_graph.entry_points
          /\ CalleeA \in DOMAIN tracker.return_states
          /\ tracker.return_states[CalleeA][1][1] = CalleeA


RECURSIVE ReachFrom(_, _, _)
\* the nodes reached from set S along edges E in at most n steps
ReachFrom(E, S, n) ==
    IF n = 0 THEN S
    ELSE ReachFrom(E, S \cup {e[2] : e \in {d \in E : d[1] \in S}}, n - 1)

\* the strongly connected component of node a in the graph of edges E
Component(E, a) ==
    {b \in GraphNodes :
        /\ b \in ReachFrom(E, {a}, Cardinality(GraphNodes))
        /\ a \in ReachFrom(E, {b}, Cardinality(GraphNodes))}

\* C25: find_recursive_calls returns exactly the strongly connected
\* components of the forward-adjacency graph that have more than one node:
\* each once, with all of its nodes and none repeated, pairwise disjoint, and
\* never a single-node component, self-edge or not.
C25_SccsOfForwardGraph ==
    fcall.fn = "find_recursive_calls" =>
        LET E == Range(fcall.edges)
            sccs == fcall.result
            expected == {c \in {Component(E, a) : a \in GraphNodes} :
                           Cardinality(c) > 1}
        IN  /\ {Range(sccs[i]) : i \in DOMAIN sccs} = expected
            /\ Len(sccs) = Cardinality(expected)
            /\ \A i \in DOMAIN sccs :
                 /\ Len(sccs[i]) = Cardinality(Range(sccs[i]))
                 /\ Len(sccs[i]) > 1
            /\ \A i, j \in DOMAIN sccs :
                 i # j => Range(sccs[i]) \cap Range(sccs[j]) = {}

\* C25 witness: a graph holding a cycle and, apart from it, a node with an
\* edge to itself: the cycle is returned, the self-loop node is not.
C25_Witness ==
    /\ fcall.fn = "find_recursive_calls"
    /\ Len(fcall.result) = 1
    /\ \E k \in GraphNodes :
         /\ <<k, k>> \in Range(fcall.edges)
         /\ k \notin Range(fcall.result[1])


\* the push/pull pairs the balance check counts
PushPullPairs ==
    {<<"PHB", "PLB">>, <<"PHD", "PLD">>, <<"PHP", "PLP">>,
     <<"PHA", "PLA">>, <<"PHX", "PLX">>, <<"PHY", "PLY">>}

\* the sum of the deltas of the logged operations other than calls and returns
LocalSum(state) ==
    SumSeq([i \in DOMAIN state.stack_ops |->
              IF state.stack_ops[i].opcode \in {"JSR", "JSL", "RTS", "RTL", "RTI"}
                THEN 0 ELSE state.stack_ops[i].delta])

StateAfter ==
    IF cur' # <<>> THEN cur'[1].state
    ELSE LET returns == ReturnsOf(tracker', cur[1].routine_start)
         IN  returns[Len(returns)][2]

\* REP, SEP, PLP, XCE and RTI
FlagOpcodes == {194, 226, 40, 251, 64}

ConditionalOpcodes == {16, 48, 80, 112, 144, 176, 208, 240}

\* the operand byte of a short branch as a signed displacement
Displacement(b) == IF b >= 128 THEN b - 256 ELSE b

\* C28: a conditional branch with a readable offset records one branch
\* cross-reference to addr + 2 + displacement, enqueues that target with the
\* state at the branch and the routine-start tag of its trace, and goes on in
\* the same trace at addr + 2 with the same state and tag; the address a
\* trace stands at is in visited after its next step.
C28_BranchBothWays ==
    [][ /\ (AtFresh(ConditionalOpcodes)
            /\ read_byte(prog, cur[1].addr + 1) # NoneVal) =>
            LET c == cur[1]
                target == c.addr + 2 + Displacement(read_byte(prog, c.addr + 1))
                n == Len(tracker.cross_refs)
                k == Len(tracker.pending)
            IN  /\ Len(tracker'.cross_refs) = n + 1
                /\ tracker'.cross_refs[n + 1].from_addr = c.addr
                /\ tracker'.cross_refs[n + 1].to_addr = target
                /\ tracker'.cross_refs[n + 1].kind = "branch"
                /\ tracker'.pending = Append(tracker.pending,
                                             <<target, c.state, c.routine_start>>)
                /\ cur' # <<>>
                /\ cur'[1].addr = c.addr + 2
                /\ cur'[1].state = c.state
                /\ cur'[1].routine_start = c.routine_start
        /\ Tracing => cur[1].addr \in DOMAIN tracker'.visited ]_vars

\* C28 witness: the BPL +3 at $008000 of RomTruncated has been traced: the
\* trace stands at the fall-through $008002 and the taken target $008005 is
\* queued under the tag $008000.
C28_Witness ==
    /\ Tracing
    /\ prog.rom = RomTruncated
    /\ cur[1].addr = LOROM_BASE + 2
    /\ cur[1].routine_start = LOROM_BASE
    /\ LOROM_BASE + 2 \notin DOMAIN tracker.visited
    /\ tracker.pending = <<<<LOROM_BASE + 5, cur[1].state, LOROM_BASE>>>>
    /\ tracker.cross_refs[1].kind = "branch"
    /\ tracker.cross_refs[1].to_addr = LOROM_BASE + 5


\* the "was not reached during analysis" warnings issued for address a
NotReached(a) ==
    {i \in DOMAIN tracker.diagnostics :
        /\ tracker.diagnostics[i].message = "was not reached during analysis"
        /\ tracker.diagnostics[i].address = a}

\* C29: once an analyze_from call is over, every address analyze_from was
\* given is in visited, readable or not; so a hook whose address was analysed
\* before _validate_hooks ran gets no "was not reached" warning.
C29_EntryAlwaysVisited ==
    /\ pc \in {"idle", "raised", "validated"}
         => tracker.call_graph.entry_points \subseteq DOMAIN tracker.visited
    /\ pc = "validated"
         => \A i \in DOMAIN hooks :
              hooks[i].address \in tracker.call_graph.entry_points
                => NotReached(hooks[i].address) = {}

\* C29 witness: the hook at $408000, which LoROM does not map, was analysed:
\* it is in visited and the post-pass has run without the warning.
C29_Witness ==
    /\ pc = "validated"
    /\ hooks[1].address = UnmappedEntry
    /\ snes_to_pc(UnmappedEntry, prog.mapper) = -1
    /\ UnmappedEntry \in tracker.call_graph.entry_points
    /\ UnmappedEntry \in DOMAIN tracker.visited
    /\ NotReached(UnmappedEntry) = {}


\* how many times x occurs in seq
Occurrences(seq, x) == Cardinality({i \in DOMAIN seq : seq[i] = x})

\* C30: after every step, each reference of cross_refs occurs once in
\* forward[from_addr] and once in reverse[to_addr] with from_bank and to_bank
\* its addresses shifted right by 16 bits; forward and reverse hold nothing
\* else, each list under the address its references share; and cross_refs
\* grows only at its end, so it lists the references in recording order.
C30_ForwardReverseAgree ==
    [][ LET refs == tracker'.cross_refs
            forward == tracker'.call_graph.forward
            reverse == tracker'.call_graph.reverse
        IN  /\ \A i \in DOMAIN refs :
                 /\ refs[i].from_addr \in DOMAIN forward
                 /\ Occurrences(forward[refs[i].from_addr], refs[i]) = 1
                 /\ refs[i].to_addr \in DOMAIN reverse
                 /\ Occurrences(reverse[refs[i].to_addr], refs[i]) = 1
                 /\ refs[i].from_bank = refs[i].from_addr \div 65536
                 /\ refs[i].to_bank = refs[i].to_addr \div 65536
            /\ \A a \in DOMAIN forward : \A k \in DOMAIN forward[a] :
                 forward[a][k] \in Range(refs) /\ forward[a][k].from_addr = a
            /\ \A a \in DOMAIN reverse : \A k \in DOMAIN reverse[a] :
                 reverse[a][k] \in Range(refs) /\ reverse[a][k].to_addr = a
            /\ Len(refs) >= Len(tracker.cross_refs)
            /\ SubSeq(refs, 1, Len(tracker.cross_refs)) = tracker.cross_refs ]_vars

\* C30 witness: Scenario E analysed: cross_refs holds the JSL into bank 2 and
\* then the JSR to $008000, forward holds each under its call site and
\* reverse each under its target.
C30_Witness ==
    /\ Analysed
    /\ prog.rom = RomE
    /\ Len(tracker.cross_refs) = 2
    /\ tracker.cross_refs[1].kind = "jsl" /\ tracker.cross_refs[1].to_bank = 2
    /\ tracker.cross_refs[2].kind = "jsr" /\ tracker.cross_refs[2].to_bank = 0
    /\ tracker.call_graph.forward[LOROM_BASE] = <<tracker.cross_refs[1]>>
    /\ tracker.call_graph.forward[LOROM_BASE + 4] = <<tracker.cross_refs[2]>>
    /\ tracker.call_graph.reverse[2 * 65536 + LOROM_BASE] = <<tracker.cross_refs[1]>>
    /\ tracker.call_graph.reverse[LOROM_BASE] = <<tracker.cross_refs[2]>>

====
